---- MODULE Spec2Model ----
(***************************************************************************)
(* Model of ipmanager/hetznerConfigurer.go: the HetznerConfigurer, which   *)
(* answers "does this node own the failover IP" from a cached state that   *)
(* is refreshed through the Hetzner robot API.                             *)
(*                                                                         *)
(* Time is counted in ticks of thirty minutes.  An IP value (net.IP) is a  *)
(* sequence of bytes: empty for nil, 4 bytes or 16 bytes otherwise.  The   *)
(* text of an IP literal is the sequence of the decimal fields of a dotted *)
(* quad.  A response body is a record that gives, for the members the      *)
(* parser looks at, the JSON type of the value found.                      *)
(***************************************************************************)
EXTENDS Integers, Sequences, FiniteSets, TLC

VARIABLES cachedState, lastAPICheck, now, last, prev, check, pending

vars == <<cachedState, lastAPICheck, now, last, prev, check, pending>>

-----------------------------------------------------------------------------
(* Constants of the program and bounds of the model                        *)

unknown == 0
configured == 1
released == 2

\* time.Hour, in ticks.
Hour == 2

\* time.Unix(0, 0)
Epoch == 0

\* The clock when the configurer is constructed: long after the epoch.
StartTime == Epoch + 3 * Hour

\* The clock stops advancing here.
MaxTime == 10

-----------------------------------------------------------------------------
(* net.IP                                                                  *)

NilIP == <<>>

v4InV6Prefix == <<0, 0, 0, 0, 0, 0, 0, 0, 0, 0, 255, 255>>

\* net.IP.Equal compared only values of the same length.
EqualSameLength(ip, x) == Len(ip) = Len(x) /\ ip = x

\* net.IP.Equal: an IPv4 address and the same address in IPv6 form are equal;
\* two nil values are equal as well.
Equal(ip, x) ==
    IF Len(ip) = Len(x) THEN ip = x
    ELSE IF Len(ip) = 4 /\ Len(x) = 16
         THEN SubSeq(x, 1, 12) = v4InV6Prefix /\ ip = SubSeq(x, 13, 16)
    ELSE IF Len(ip) = 16 /\ Len(x) = 4
         THEN SubSeq(ip, 1, 12) = v4InV6Prefix /\ SubSeq(ip, 13, 16) = x
    ELSE FALSE

\* net.ParseIP on a dotted quad: the 16-byte form, or nil when the text is
\* no IP literal.
ParseIP(s) ==
    IF Len(s) = 4 /\ \A i \in 1..4 : s[i] \in 0..255
    THEN v4InV6Prefix \o s
    ELSE NilIP

\* The address of this node, as the local end of a UDP socket reports it.
MyIP == <<10, 0, 0, 1>>

\* getOutboundIP: nil when the dial fails, the local address otherwise.
OutboundIPs == {NilIP, MyIP}

\* Texts the provider may put in active_server_ip.
IPLiterals ==
    {<<10, 0, 0, 1>>, <<10, 0, 0, 2>>, <<10, 0, 0, 256>>, <<10, 0, 0>>, <<>>}

-----------------------------------------------------------------------------
(* Response bodies                                                         *)

\* What json.Unmarshal makes of the text.
BodyKinds == {"empty", "text", "array", "null", "object"}

NoError == [t |-> "absent", status |-> "absent", code |-> "absent", message |-> "absent"]

NoFailover ==
    [t |-> "absent", ip |-> "absent", netmask |-> "absent", server_ip |-> "absent",
     server_number |-> "absent", active_t |-> "absent", active_s |-> <<>>]

\* Values of the "error" member.
GoodError == [t |-> "object", status |-> "number", code |-> "string", message |-> "string"]

\* Values of the "error" member: no object, the record of the protocol, and
\* records with one field missing or of another type.
ErrorMembers ==
    {[NoError EXCEPT !.t = k] : k \in {"absent", "null", "number", "string"}}
    \cup {GoodError}
    \cup {[GoodError EXCEPT !.status = k] : k \in {"string", "absent"}}
    \cup {[GoodError EXCEPT !.code = "absent"], [GoodError EXCEPT !.message = "number"]}

GoodFailover(s) ==
    [t |-> "object", ip |-> "string", netmask |-> "string", server_ip |-> "string",
     server_number |-> "number", active_t |-> "string", active_s |-> s]

\* Values of the "failover" member: no object, the record of the protocol,
\* and records with one field missing or of another type.
FailoverMembers ==
    {[NoFailover EXCEPT !.t = k] : k \in {"absent", "null", "number", "string"}}
    \cup {GoodFailover(s) : s \in IPLiterals}
    \cup {[GoodFailover(MyIP) EXCEPT !.active_t = k] : k \in {"absent", "number"}}
    \cup {[GoodFailover(MyIP) EXCEPT !.ip = "absent"],
          [GoodFailover(MyIP) EXCEPT !.netmask = "number"],
          [GoodFailover(MyIP) EXCEPT !.server_ip = "absent"],
          [GoodFailover(MyIP) EXCEPT !.server_number = "string"]}

EmptyBody == [kind |-> "empty", error |-> NoError, failover |-> NoFailover]

Bodies ==
    {[EmptyBody EXCEPT !.kind = k] : k \in BodyKinds}
    \cup [kind : {"object"}, error : ErrorMembers, failover : {NoFailover}]
    \cup [kind : {"object"}, error : {NoError}, failover : FailoverMembers]
    \cup [kind : {"object"}, error : {GoodError, [NoError EXCEPT !.t = "null"]},
          failover : {GoodFailover(MyIP)}]

\* What running curl yields: an error (no output is used), or a body.
CurlOutcomes ==
    {[err |-> TRUE, out |-> EmptyBody]} \cup [err : {FALSE}, out : Bodies]

-----------------------------------------------------------------------------
(* The remote API client and the response parser                           *)

\* A request sent to the provider: a POST carries the address to route to.
Request(post, ip) == [post |-> post, ip |-> ip]

\* curlQueryFailover runs the command without looking at what getOutboundIP
\* returned.
curlQueryFailoverUnguarded(post, myOwnIP, curl) ==
    [str  |-> IF curl.err THEN EmptyBody ELSE curl.out,
     err  |-> curl.err,
     reqs |-> <<Request(post, IF post THEN myOwnIP ELSE NilIP)>>]

\* curlQueryFailover builds the command with -d whatever post is.
curlQueryFailoverAlwaysPost(post, myOwnIP, curl) ==
    [str  |-> IF curl.err THEN EmptyBody ELSE curl.out,
     err  |-> curl.err,
     reqs |-> <<Request(TRUE, myOwnIP)>>]

\* curlQueryFailover(post): myOwnIP is what getOutboundIP returns (used when
\* post is set), curl is what running the command yields.
curlQueryFailover(post, myOwnIP, curl) ==
    IF post /\ myOwnIP = NilIP
    THEN [str |-> EmptyBody, err |-> TRUE, reqs |-> <<>>]
    ELSE [str  |-> IF curl.err THEN EmptyBody ELSE curl.out,
          err  |-> curl.err,
          reqs |-> <<Request(post, IF post THEN myOwnIP ELSE NilIP)>>]

Parsed(panic, err, ip) == [panic |-> panic, err |-> err, ip |-> ip]

\* getActiveIPFromJSON(str): a failed type assertion panics.
getActiveIPFromJSON(str) ==
    IF str.kind \notin {"null", "object"}
    THEN Parsed(FALSE, TRUE, NilIP)                  \* json.Unmarshal fails
    ELSE IF str.error.t \notin {"absent", "null"}    \* f["error"] != nil
         THEN IF /\ str.error.t = "object"
                 /\ str.error.status = "number"
                 /\ str.error.code = "string"
                 /\ str.error.message = "string"
              THEN Parsed(FALSE, TRUE, NilIP)
              ELSE Parsed(TRUE, FALSE, NilIP)
    ELSE IF str.failover.t \notin {"absent", "null"} \* f["failover"] != nil
         THEN IF /\ str.failover.t = "object"
                 /\ str.failover.ip = "string"
                 /\ str.failover.netmask = "string"
                 /\ str.failover.server_ip = "string"
                 /\ str.failover.server_number = "number"
                 /\ str.failover.active_t = "string"
              THEN Parsed(FALSE, FALSE, ParseIP(str.failover.active_s))
              ELSE Parsed(TRUE, FALSE, NilIP)
    ELSE Parsed(FALSE, TRUE, NilIP)                  \* "why did we end up here?"

\* The shape of a body in the provider's protocol: an error record, a failover
\* record, or neither.
Shape(str) ==
    IF str.kind = "object" /\ str.error = GoodError THEN "error"
    ELSE IF /\ str.kind = "object"
            /\ str.error.t \in {"absent", "null"}
            /\ \E s \in IPLiterals : str.failover = GoodFailover(s)
         THEN "failover"
    ELSE "other"

-----------------------------------------------------------------------------
(* The configurer's operations.  c is the configurer ([cachedState,        *)
(* lastAPICheck]), t the time of the call; the result gives the fields     *)
(* after the call, the value returned ("panic" when the call does not      *)
(* return), the requests sent, whether lastAPICheck was assigned and the   *)
(* values getOutboundIP returned.                                          *)

Configurer(state, checkedAt) == [cachedState |-> state, lastAPICheck |-> checkedAt]

Result(state, checkedAt, ret, reqs, checked, resolved) ==
    [cachedState |-> state, lastAPICheck |-> checkedAt, ret |-> ret, reqs |-> reqs,
     checked |-> checked, resolved |-> resolved]

\* The age of the check is compared without the division by time.Hour.
ExpiredAnyAge(c, t) == (t - c.lastAPICheck) > 0

\* The cached state is too old.
Expired(c, t) == ((t - c.lastAPICheck) \div Hour) > 1

\* queryAddress returns right after a failed read, with the state unknown.
queryAddressShortCircuit(c, t, curl, outIP) ==
    IF ~Expired(c, t) /\ c.cachedState = configured
    THEN Result(c.cachedState, c.lastAPICheck, "true", <<>>, FALSE, <<>>)
    ELSE IF ~Expired(c, t) /\ c.cachedState = released
    THEN Result(c.cachedState, c.lastAPICheck, "false", <<>>, FALSE, <<>>)
    ELSE
      LET q   == curlQueryFailover(FALSE, NilIP, curl)
          p   == getActiveIPFromJSON(q.str)
      IN  IF q.err
          THEN Result(unknown, c.lastAPICheck, "false", q.reqs, FALSE, <<>>)
          ELSE IF p.panic
          THEN Result(unknown, t, "panic", q.reqs, TRUE, <<>>)
          ELSE IF Equal(p.ip, outIP)
          THEN Result(configured, t, "true", q.reqs, TRUE, <<outIP>>)
          ELSE Result(released, t, "false", q.reqs, TRUE, <<outIP>>)

\* queryAddress looks at the cached state before the age of the check.
queryAddressCacheFirst(c, t, curl, outIP) ==
    IF c.cachedState = configured
    THEN Result(c.cachedState, c.lastAPICheck, "true", <<>>, FALSE, <<>>)
    ELSE IF c.cachedState = released
    THEN Result(c.cachedState, c.lastAPICheck, "false", <<>>, FALSE, <<>>)
    ELSE
      LET q   == curlQueryFailover(FALSE, NilIP, curl)
          chk == IF q.err THEN c.lastAPICheck ELSE t
          p   == getActiveIPFromJSON(q.str)
      IN  IF p.panic
          THEN Result(unknown, chk, "panic", q.reqs, ~q.err, <<>>)
          ELSE IF Equal(p.ip, outIP)
          THEN Result(configured, chk, "true", q.reqs, ~q.err, <<outIP>>)
          ELSE Result(released, chk, "false", q.reqs, ~q.err, <<outIP>>)

queryAddress(c, t, curl, outIP) ==
    IF ~Expired(c, t) /\ c.cachedState = configured
    THEN Result(c.cachedState, c.lastAPICheck, "true", <<>>, FALSE, <<>>)
    ELSE IF ~Expired(c, t) /\ c.cachedState = released
    THEN Result(c.cachedState, c.lastAPICheck, "false", <<>>, FALSE, <<>>)
    ELSE
      LET s1  == IF Expired(c, t) THEN unknown ELSE c.cachedState
          q   == curlQueryFailover(FALSE, NilIP, curl)
          s2  == IF q.err THEN unknown ELSE s1
          chk == IF q.err THEN c.lastAPICheck ELSE t
          p   == getActiveIPFromJSON(q.str)
      IN  \* A parse error also stores unknown, and the call goes on: either
          \* branch of the comparison below overwrites the state.
          IF p.panic
          THEN Result(s2, chk, "panic", q.reqs, ~q.err, <<>>)
          ELSE IF Equal(p.ip, outIP)
          THEN Result(configured, chk, "true", q.reqs, ~q.err, <<outIP>>)
          ELSE Result(released, chk, "false", q.reqs, ~q.err, <<outIP>>)

\* deconfigureAddress forgets the state instead of recording the release.
deconfigureAddressUnknown(c) ==
    Result(unknown, c.lastAPICheck, "true", <<>>, FALSE, <<>>)

deconfigureAddress(c) ==
    Result(released, c.lastAPICheck, "true", <<>>, FALSE, <<>>)

\* runAddressConfiguration ends a mismatch the way queryAddress does, with
\* the state released.
runAddressConfigurationReleased(c, t, curl, ip1, ip2) ==
    LET q == curlQueryFailover(TRUE, ip1, curl)
        p == getActiveIPFromJSON(q.str)
    IN  IF q.err
        THEN Result(unknown, c.lastAPICheck, "false", q.reqs, FALSE, <<ip1>>)
        ELSE IF p.panic
        THEN Result(c.cachedState, c.lastAPICheck, "panic", q.reqs, FALSE, <<ip1>>)
        ELSE IF p.err
        THEN Result(unknown, c.lastAPICheck, "false", q.reqs, FALSE, <<ip1>>)
        ELSE IF Equal(p.ip, ip2)
        THEN Result(configured, t, "true", q.reqs, TRUE, <<ip1, ip2>>)
        ELSE Result(released, t, "false", q.reqs, TRUE, <<ip1, ip2>>)

\* runAddressConfiguration reports the success without storing it.
runAddressConfigurationForgets(c, t, curl, ip1, ip2) ==
    LET q == curlQueryFailover(TRUE, ip1, curl)
        p == getActiveIPFromJSON(q.str)
    IN  IF q.err
        THEN Result(unknown, c.lastAPICheck, "false", q.reqs, FALSE, <<ip1>>)
        ELSE IF p.panic
        THEN Result(c.cachedState, c.lastAPICheck, "panic", q.reqs, FALSE, <<ip1>>)
        ELSE IF p.err
        THEN Result(unknown, c.lastAPICheck, "false", q.reqs, FALSE, <<ip1>>)
        ELSE IF Equal(p.ip, ip2)
        THEN Result(c.cachedState, t, "true", q.reqs, TRUE, <<ip1, ip2>>)
        ELSE Result(unknown, t, "false", q.reqs, TRUE, <<ip1, ip2>>)

\* ip1 is what getOutboundIP returns inside curlQueryFailover, ip2 what it
\* returns for the comparison.  (A third call only feeds the log line.)
runAddressConfiguration(c, t, curl, ip1, ip2) ==
    LET q == curlQueryFailover(TRUE, ip1, curl)
        p == getActiveIPFromJSON(q.str)
    IN  IF q.err
        THEN Result(unknown, c.lastAPICheck, "false", q.reqs, FALSE, <<ip1>>)
        ELSE IF p.panic
        THEN Result(c.cachedState, c.lastAPICheck, "panic", q.reqs, FALSE, <<ip1>>)
        ELSE IF p.err
        THEN Result(unknown, c.lastAPICheck, "false", q.reqs, FALSE, <<ip1>>)
        ELSE IF Equal(p.ip, ip2)
        THEN Result(configured, t, "true", q.reqs, TRUE, <<ip1, ip2>>)
        ELSE Result(unknown, t, "false", q.reqs, TRUE, <<ip1, ip2>>)

configureAddress(c, t, curl, ip1, ip2) ==
    runAddressConfiguration(c, t, curl, ip1, ip2)

\* cleanupArp clears the state, as a configurer with local state would.
cleanupArpReleases(c) ==
    Result(released, c.lastAPICheck, "void", <<>>, FALSE, <<>>)

cleanupArp(c) ==
    Result(c.cachedState, c.lastAPICheck, "void", <<>>, FALSE, <<>>)

-----------------------------------------------------------------------------
(* The state machine.  cachedState and lastAPICheck are the configurer's   *)
(* fields and now is the clock.  last describes the latest call, prev the  *)
(* call before it and check the latest call that assigned lastAPICheck.    *)
(* pending is the call that waits for its curl command, where calls are    *)
(* not taken as one step.                                                  *)

\* No call that assigned lastAPICheck stands.
NoCheck == [valid |-> FALSE, op |-> "none", ret |-> "void", state |-> unknown]

NoCall ==
    [op |-> "none", ret |-> "void", reqs |-> <<>>, curlErr |-> FALSE, shape |-> "none",
     active |-> NilIP, resolved |-> <<>>, checked |-> FALSE,
     pre |-> unknown, preCheck |-> Epoch, at |-> StartTime, had |-> NoCheck]

\* The record of a call of op that had result r: what it returned, the
\* requests it sent, whether the request failed in transport, the shape of the
\* body received and the address it names, what getOutboundIP returned,
\* whether lastAPICheck was assigned, and cachedState (pre), lastAPICheck
\* (preCheck), the clock (at) and check (had) when the call was made.
Call(op, r, curl) ==
    LET got == r.reqs # <<>> /\ ~curl.err
    IN  [op |-> op, ret |-> r.ret, reqs |-> r.reqs,
         curlErr |-> r.reqs # <<>> /\ curl.err,
         shape |-> IF got THEN Shape(curl.out) ELSE "none",
         active |-> IF got /\ Shape(curl.out) = "failover"
                    THEN ParseIP(curl.out.failover.active_s) ELSE NilIP,
         resolved |-> r.resolved, checked |-> r.checked,
         pre |-> cachedState, preCheck |-> lastAPICheck, at |-> now, had |-> check]

\* What is kept of a call once another call has followed it.
Before(call) ==
    [op |-> call.op, ret |-> call.ret, sent |-> call.reqs # <<>>,
     curlErr |-> call.curlErr, shape |-> call.shape, valid |-> call.active # NilIP]

\* check after a call with result r: a call that assigned lastAPICheck is the
\* new check; another call that wrote cachedState ends the standing of the
\* old one; a call that wrote nothing leaves it.
Checked(op, r, wrote) ==
    IF r.checked /\ r.ret # "panic"
    THEN [valid |-> TRUE, op |-> op, ret |-> r.ret, state |-> r.cachedState]
    ELSE IF wrote THEN NoCheck
    ELSE check

alive == last.ret # "panic"

NoCurl == [err |-> TRUE, out |-> EmptyBody]

\* No call is waiting for curl.
NoPending == [phase |-> "none", op |-> "none", ip1 |-> NilIP]

Init ==
    /\ cachedState = unknown
    /\ lastAPICheck = Epoch
    /\ now = StartTime
    /\ last = NoCall
    /\ prev = Before(NoCall)
    /\ check = NoCheck
    /\ pending = NoPending

Return(op, r, curl, wrote) ==
    /\ cachedState' = r.cachedState
    /\ lastAPICheck' = r.lastAPICheck
    /\ last' = Call(op, r, curl)
    /\ prev' = Before(last)
    /\ check' = Checked(op, r, wrote)
    /\ UNCHANGED now

QueryAddress ==
    /\ alive
    /\ \E curl \in CurlOutcomes, outIP \in OutboundIPs :
         LET r == queryAddress(Configurer(cachedState, lastAPICheck), now, curl, outIP)
         IN  Return("queryAddress", r, curl, r.reqs # <<>>)
    /\ UNCHANGED pending

ConfigureAddress ==
    /\ alive
    /\ \E curl \in CurlOutcomes, ip1 \in OutboundIPs, ip2 \in OutboundIPs :
         LET r == configureAddress(Configurer(cachedState, lastAPICheck), now, curl, ip1, ip2)
         IN  Return("configureAddress", r, curl, TRUE)
    /\ UNCHANGED pending

DeconfigureAddress ==
    /\ alive
    /\ Return("deconfigureAddress",
              deconfigureAddress(Configurer(cachedState, lastAPICheck)), NoCurl, TRUE)
    /\ UNCHANGED pending

CleanupArp ==
    /\ alive
    /\ Return("cleanupArp", cleanupArp(Configurer(cachedState, lastAPICheck)), NoCurl, FALSE)
    /\ UNCHANGED pending

\* Thirty minutes pass.
Tick ==
    /\ alive
    /\ now < MaxTime
    /\ now' = now + 1
    /\ UNCHANGED <<cachedState, lastAPICheck, last, prev, check, pending>>

Next ==
    \/ QueryAddress
    \/ ConfigureAddress
    \/ DeconfigureAddress
    \/ CleanupArp
    \/ Tick

Spec == Init /\ [][Next]_vars

-----------------------------------------------------------------------------
(* The calls with the wait for curl made visible.  cmd.Output() blocks     *)
(* until the curl process exits, and neither the command line nor the Go   *)
(* code sets a time limit: a call that sends a request starts the command  *)
(* (StartCall), the command exits when the provider has answered or the    *)
(* transport has failed (CurlExits), and then the call goes on to its end  *)
(* (CallReturns).  Calls that send no request are one step, as before.     *)

\* A call of op sends a request: queryAddress when it does not answer from
\* the cache, configureAddress when getOutboundIP gave an address.
Sends(op, ip1) ==
    IF op = "queryAddress"
    THEN /\ ip1 = NilIP
         /\ queryAddress(Configurer(cachedState, lastAPICheck), now, NoCurl, NilIP).reqs # <<>>
    ELSE runAddressConfiguration(Configurer(cachedState, lastAPICheck), now, NoCurl,
                                 ip1, NilIP).reqs # <<>>

StartCall ==
    /\ alive
    /\ pending.phase = "none"
    /\ \E op \in {"queryAddress", "configureAddress"}, ip1 \in OutboundIPs :
         /\ Sends(op, ip1)
         /\ pending' = [phase |-> "running", op |-> op, ip1 |-> ip1]
    /\ UNCHANGED <<cachedState, lastAPICheck, now, last, prev, check>>

\* The curl process exits, with an error or with the provider's answer.
CurlExits ==
    /\ pending.phase = "running"
    /\ pending' = [pending EXCEPT !.phase = "exited"]
    /\ UNCHANGED <<cachedState, lastAPICheck, now, last, prev, check>>

\* cmd.Output() returns what the command yielded (curl) and the rest of the
\* call runs.
CallReturns ==
    /\ pending.phase = "exited"
    /\ \E curl \in CurlOutcomes, outIP \in OutboundIPs :
         LET c == Configurer(cachedState, lastAPICheck)
             r == IF pending.op = "queryAddress"
                  THEN queryAddress(c, now, curl, outIP)
                  ELSE configureAddress(c, now, curl, pending.ip1, outIP)
         IN  Return(pending.op, r, curl, TRUE)
    /\ pending' = NoPending

\* A call that sends no request.
CallWithoutRequest ==
    /\ pending.phase = "none"
    /\ \/ QueryAddress
       \/ ConfigureAddress
       \/ DeconfigureAddress
       \/ CleanupArp
    /\ last'.reqs = <<>>

BlockingNext ==
    \/ StartCall
    \/ CurlExits
    \/ CallReturns
    \/ CallWithoutRequest
    \/ Tick

\* The caller runs a call to its end once curl has exited; nothing obliges
\* the provider to answer.
BlockingSpec == Init /\ [][BlockingNext]_vars /\ WF_vars(CallReturns)

TypeOK ==
    /\ cachedState \in {unknown, configured, released}
    /\ lastAPICheck \in {Epoch} \cup (StartTime..MaxTime)
    /\ now \in StartTime..MaxTime
    /\ lastAPICheck <= now

-----------------------------------------------------------------------------
(* Vocabulary of the properties                                            *)

Queried == last.op = "queryAddress"

Configuring == last.op = "configureAddress"

\* The latest call sent a request to the provider.
Remote == last.reqs # <<>>

\* The time between the check on record and the latest call.
Age == last.at - last.preCheck

\* The latest call received a failover record that names a valid address.
GotRecord == last.shape = "failover" /\ last.active # NilIP

\* The latest call's refresh failed: in transport, with a provider error
\* record or with a body of neither shape.
RefreshFailed == last.curlErr \/ last.shape \in {"error", "other"}

\* The address the latest call resolved for its comparison.
Compared == last.resolved[Len(last.resolved)]

-----------------------------------------------------------------------------
(* Properties                                                              *)

\* C1: a queryAddress whose refresh failed (transport failure, provider
\* error record, malformed body) returns false: it never returns true and
\* never leaves the state configured, whatever getOutboundIP returns.
C1_FailedRefreshNeverOwned ==
    (Queried /\ Remote /\ RefreshFailed)
        => (last.ret # "true" /\ cachedState # configured)

\* C2: a configureAddress that receives a failover record naming another
\* address than this node's returns false and leaves the state unknown.
C2_MismatchLeavesUnknown ==
    (Configuring /\ GotRecord /\ last.active # v4InV6Prefix \o MyIP)
        => (last.ret = "false" /\ cachedState = unknown)

\* C2 witness: the state was configured, the provider answers with the
\* address of another node, and the call has returned false.
C2_Witness ==
    /\ Configuring /\ GotRecord
    /\ last.active = v4InV6Prefix \o <<10, 0, 0, 2>>
    /\ last.resolved = <<MyIP, MyIP>>
    /\ last.pre = configured
    /\ last.ret = "false" /\ cachedState = unknown

\* C3 as stated: a queryAddress made less than an hour after a standing
\* check sends no request and returns what that check returned.
C3_CacheHitAfterAnyCheck ==
    (Queried /\ last.had.valid /\ Age < Hour)
        => (~Remote /\ last.ret = last.had.ret)

\* C3 as amended: a queryAddress made less than an hour after a standing
\* check that left the state configured or released sends no request and
\* returns what that check returned.
C3_CacheHitAfterDecidedCheck ==
    (Queried /\ last.had.valid /\ last.had.state \in {configured, released} /\ Age < Hour)
        => (~Remote /\ last.ret = last.had.ret)

\* C3 witness: half an hour after a check that returned true, a
\* queryAddress has returned true without a request.
C3_Witness ==
    /\ Queried /\ last.had.valid /\ last.had.state = configured
    /\ Age = 1
    /\ ~Remote /\ last.ret = "true" /\ last.had.ret = "true"

\* C4: a queryAddress made exactly one hour after the check on record sends
\* a read request.
C4_ExpiredAtOneHour ==
    (Queried /\ Age = Hour) => Remote

\* C5: a queryAddress made more than one hour after the check on record
\* sends a read request.
C5_ExpiredAfterOneHour ==
    (Queried /\ Age > Hour) => Remote

\* C6: a queryAddress that receives a provider error record returns false,
\* leaves the state unknown and sets lastAPICheck to the time of the call.
C6_ErrorRecordLeavesUnknown ==
    (Queried /\ last.shape = "error")
        => (last.ret = "false" /\ cachedState = unknown /\ lastAPICheck = last.at)

\* C7: a queryAddress whose read fails in transport leaves the state unknown
\* and lastAPICheck as it was, and the queryAddress that follows it sends a
\* read request again.
C7_TransportFailureRetried ==
    /\ (Queried /\ last.curlErr)
          => (cachedState = unknown /\ lastAPICheck = last.preCheck)
    /\ (Queried /\ prev.op = "queryAddress" /\ prev.curlErr) => Remote

\* C8: a queryAddress that receives a failover record sets lastAPICheck and
\* decides by the comparison alone: the record names the address resolved for
\* this node exactly when the call returns true and leaves the state
\* configured, otherwise it returns false and leaves the state released; and
\* a queryAddress that follows a true answer within the hour returns true
\* without a request.
C8_RecordDecidesOwnership ==
    /\ (Queried /\ GotRecord)
          => /\ lastAPICheck = last.at
             /\ IF Compared # NilIP /\ last.active = v4InV6Prefix \o Compared
                THEN last.ret = "true" /\ cachedState = configured
                ELSE last.ret = "false" /\ cachedState = released
    /\ (/\ Queried /\ Age < Hour
        /\ prev.op = "queryAddress" /\ prev.sent /\ prev.shape = "failover"
        /\ prev.valid /\ prev.ret = "true")
          => (last.ret = "true" /\ ~Remote)

\* C8 witness: a refresh found this node's address in the record and
\* returned true, and the queryAddress after it has answered true from the
\* cache.
C8_Witness ==
    /\ Queried /\ Age < Hour /\ ~Remote /\ last.ret = "true"
    /\ prev.op = "queryAddress" /\ prev.sent /\ prev.shape = "failover"
    /\ prev.valid /\ prev.ret = "true"
    /\ cachedState = configured

\* C9: deconfigureAddress returns true, sends no request and leaves the
\* state released; a queryAddress that follows it less than an hour after
\* the check on record returns false without a request.
C9_DeconfigureReleases ==
    /\ last.op = "deconfigureAddress"
          => (last.ret = "true" /\ ~Remote /\ cachedState = released)
    /\ (Queried /\ prev.op = "deconfigureAddress" /\ Age < Hour)
          => (last.ret = "false" /\ ~Remote)

\* C9 witness: the state was configured by a check, deconfigureAddress was
\* called, and the queryAddress after it has returned false from the cache.
C9_Witness ==
    /\ Queried /\ prev.op = "deconfigureAddress" /\ Age < Hour
    /\ last.pre = released /\ last.ret = "false" /\ ~Remote
    /\ cachedState = released

\* C10: queryAddress and configureAddress return a boolean for every body;
\* neither ends in a panic.
C10_NoPanic ==
    (Queried \/ Configuring) => last.ret \in {"true", "false"}

\* C11: a configureAddress whose first getOutboundIP fails sends no
\* request, returns false, leaves the state unknown and lastAPICheck as it
\* was.
C11_UnresolvedBlocksWrite ==
    (Configuring /\ last.resolved[1] = NilIP)
        => /\ ~Remote
           /\ last.ret = "false"
           /\ cachedState = unknown
           /\ lastAPICheck = last.preCheck

\* C11 witness: the state was configured by an earlier check, the resolver
\* failed and configureAddress has returned false without a request.
C11_Witness ==
    /\ Configuring /\ last.resolved = <<NilIP>>
    /\ last.pre = configured /\ last.preCheck # Epoch
    /\ ~Remote /\ last.ret = "false" /\ cachedState = unknown
    /\ lastAPICheck = last.preCheck

\* C12: a failover record whose active_server_ip is no IP literal is
\* malformed: queryAddress and configureAddress return false and leave the
\* state unknown.
C12_InvalidLiteralIsMalformed ==
    ((Queried \/ Configuring) /\ last.shape = "failover" /\ last.active = NilIP)
        => (last.ret = "false" /\ cachedState = unknown)

\* C13: a call assigns lastAPICheck exactly when it sent a request that
\* completed in transport, whatever the body was and whether the request
\* was a read or a write.
C13_CheckedIffRequestCompleted ==
    (last.op # "none") => (last.checked <=> (Remote /\ ~last.curlErr))

\* C14: every queryAddress and configureAddress that waits for its request
\* eventually returns.
C14_CallsReturn ==
    (pending.phase = "running") ~> (pending.phase = "none")

\* C15: configureAddress returns true, with the state configured, exactly
\* when it received a failover record naming the address resolved for this
\* node; in every other case it returns false and leaves the state unknown.
C15_ConfigureOutcome ==
    Configuring
        => IF GotRecord /\ Compared # NilIP /\ last.active = v4InV6Prefix \o Compared
           THEN last.ret = "true" /\ cachedState = configured
           ELSE last.ret = "false" /\ cachedState = unknown

\* C16: while the check on record is a configureAddress that returned true
\* (no configureAddress or deconfigureAddress since), a queryAddress made
\* less than an hour after it returns true without a request.
C16_ConfiguredIsCached ==
    (/\ Queried /\ Age < Hour
     /\ last.had.valid /\ last.had.op = "configureAddress" /\ last.had.ret = "true")
        => (last.ret = "true" /\ ~Remote)

\* C16 witness: half an hour after a configureAddress that returned true, a
\* second queryAddress in a row has returned true from the cache.
C16_Witness ==
    /\ Queried /\ Age = 1 /\ prev.op = "queryAddress" /\ ~prev.sent
    /\ last.had.valid /\ last.had.op = "configureAddress" /\ last.had.ret = "true"
    /\ last.ret = "true" /\ ~Remote /\ cachedState = configured

\* C17: a queryAddress that returns leaves the state configured exactly when
\* it returns true and released exactly when it returns false; the state is
\* never unknown after it.
C17_ReturnMatchesState ==
    (Queried /\ last.ret # "panic")
        => /\ last.ret = "true" <=> cachedState = configured
           /\ last.ret = "false" <=> cachedState = released
           /\ cachedState # unknown

\* C17 witness: a refresh failed in transport and the call has returned
\* false with the state released.
C17_Witness ==
    /\ Queried /\ last.curlErr
    /\ last.ret = "false" /\ cachedState = released

\* C18: configureAddress sends at most one request, a write; queryAddress
\* sends at most one request, a read; deconfigureAddress and cleanupArp send
\* none.
C18_RequestsPerCall ==
    /\ Len(last.reqs) <= 1
    /\ \A i \in 1..Len(last.reqs) : last.reqs[i].post <=> Configuring
    /\ last.op \in {"deconfigureAddress", "cleanupArp"} => ~Remote

\* C18 witness: a configureAddress has sent its one write, naming this
\* node's address.
C18_Witness ==
    /\ Configuring
    /\ last.reqs = <<Request(TRUE, MyIP)>>

\* C19: a new configurer is in state unknown with lastAPICheck at the epoch,
\* and as long as lastAPICheck is at the epoch every queryAddress sends a
\* read request.
C19_NoCacheBeforeFirstCheck ==
    /\ last.op = "none" => (cachedState = unknown /\ lastAPICheck = Epoch)
    /\ (Queried /\ last.preCheck = Epoch) => Remote

\* C19 witness: no check was ever made, deconfigureAddress set the state
\* released, and the queryAddress after it has sent a read.
C19_Witness ==
    /\ Queried /\ last.preCheck = Epoch
    /\ prev.op = "deconfigureAddress" /\ last.pre = released
    /\ last.reqs = <<Request(FALSE, NilIP)>>

\* C20: cleanupArp leaves cachedState and lastAPICheck as they were and
\* sends no request.
C20_CleanupIsNoOp ==
    last.op = "cleanupArp"
        => /\ cachedState = last.pre
           /\ lastAPICheck = last.preCheck
           /\ ~Remote

\* C20 witness: cleanupArp was called in state configured after a check.
C20_Witness ==
    /\ last.op = "cleanupArp"
    /\ last.pre = configured /\ last.preCheck # Epoch
    /\ cachedState = configured /\ lastAPICheck = last.preCheck /\ ~Remote

====
